---- MODULE Spec2Model ----
(***************************************************************************)
(* Model of the research paper generator (main.py): the section pipeline   *)
(* generate_paper running on a worker thread, the UI-thread entry point    *)
(* start_generation, the context builder, the citation extractor and the   *)
(* document save step.                                                     *)
(*                                                                         *)
(* A string is modelled as a sequence of chunks: a chunk is either one     *)
(* character ("(", ")", " ", "x", ...) or a literal piece of a template.   *)
(* A Python dict that keeps insertion order (section_texts) is a sequence  *)
(* of <<key, value>> pairs; citations is a function whose domain is the    *)
(* set of keys present.                                                    *)
(***************************************************************************)
EXTENDS Integers, Sequences, FiniteSets, TLC

\* ----------------------------------------------------------------- bounds
\* Number of worker threads (accepted start requests) explored.
MaxRuns == 2

\* Longest text handed to extract_citations on its own.
MaxLen == 6

\* ------------------------------------------------------- program constants
None == 0

FieldNames == {"api_key", "topic", "methodology", "results"}

\* main.py:155  required_fields, in the order validate_inputs visits them
required_fields == <<"api_key", "topic", "methodology", "results">>

\* str.title() of each field name (main.py:158)
Title(field) ==
    CASE field = "api_key" -> "Api_Key"
      [] field = "topic" -> "Topic"
      [] field = "methodology" -> "Methodology"
      [] field = "results" -> "Results"

\* main.py:12-25  the declared sections: name and prompt template.  A template
\* is a sequence of parts, <<"lit", text>> or <<"ph", placeholder name>>.
sections ==
    << <<"Abstract",
         << <<"lit", "Write a detailed and structured abstract for a research paper about ">>,
            <<"ph", "topic">>,
            <<"lit", ". Summarize the background, objectives, methods, key results, and conclusions...">> >> >>,
       <<"Introduction",
         << <<"lit", "Write a comprehensive introduction for a research paper on ">>,
            <<"ph", "topic">>,
            <<"lit", ". Include the study's significance, relevant background, existing research gaps...">> >> >>,
       <<"Methodology",
         << <<"lit", "Provide an in-depth methodology section for a research paper about ">>,
            <<"ph", "topic">>,
            <<"lit", ". Include participant demographics, data collection instruments, procedures...">> >> >>,
       <<"Results",
         << <<"lit", "Elaborate on the research findings for ">>,
            <<"ph", "topic">>,
            <<"lit", ". Include detailed statistical results, tables if applicable...">> >> >>,
       <<"Discussion",
         << <<"lit", "Write a critical discussion of the results obtained in the study about ">>,
            <<"ph", "topic">>,
            <<"lit", ". Analyze implications, strengths, limitations...">> >> >>,
       <<"Conclusion",
         << <<"lit", "Summarize the key findings and their significance for the study on ">>,
            <<"ph", "topic">>,
            <<"lit", ". Discuss potential applications of the research, limitations...">> >> >> >>

NumSections == Len(sections)

\* the list with Methodology and Results exchanged
SectionName_Swapped(i) ==
    IF i = 3 THEN sections[4][1] ELSE IF i = 4 THEN sections[3][1] ELSE sections[i][1]

SectionName(i) == sections[i][1]

SectionNames == {SectionName(i) : i \in 1..NumSections}

\* main.py:34-46  the context templates of build_context
contexts ==
    [Abstract |-> <<>>,
     Introduction |->
        << <<"lit", "Previously in the Abstract, we established the research focus on ">>,
           <<"ph", "topic">>, <<"lit", " using ">>, <<"ph", "methodology">>,
           <<"lit", " which yielded ">>, <<"ph", "results">>,
           <<"lit", ". Include relevant citations: ">>, <<"ph", "citations">>, <<"lit", ".">> >>,
     Methodology |->
        << <<"lit", "Based on the research objectives outlined in the Introduction regarding ">>,
           <<"ph", "topic">>, <<"lit", ", detail the following methodological approach: ">>,
           <<"ph", "methodology">>, <<"lit", ". Reference similar methodologies: ">>,
           <<"ph", "citations">>, <<"lit", ".">> >>,
     Results |->
        << <<"lit", "Following the ">>, <<"ph", "methodology">>,
           <<"lit", " described in the Methodology section, present these findings: ">>,
           <<"ph", "results">>, <<"lit", ". Compare with similar studies: ">>,
           <<"ph", "citations">>, <<"lit", ".">> >>,
     Discussion |->
        << <<"lit", "Considering the results showing ">>, <<"ph", "results">>,
           <<"lit", " obtained through ">>, <<"ph", "methodology">>,
           <<"lit", ", interpret these findings in the context of ">>, <<"ph", "topic">>,
           <<"lit", ". Include comparative analysis: ">>, <<"ph", "citations">>, <<"lit", ".">> >>,
     Conclusion |->
        << <<"lit", "Given the findings ">>, <<"ph", "results">>,
           <<"lit", " and their discussion in relation to ">>, <<"ph", "topic">>,
           <<"lit", ", provide concluding thoughts. Reference key literature: ">>,
           <<"ph", "citations">>, <<"lit", ".">> >>]

\* main.py:272-277  the fixed block of directives of the prompt
Requirements ==
    << "Requirements: 1. Use academic writing style 2. Include proper citations 3. Maintain consistent formatting 4. Ensure factual accuracy 5. Cross-reference with existing literature" >>

\* ---------------------------------------------------------- pure functions
\* str.strip(): drop leading and trailing whitespace
RECURSIVE LStrip(_)
LStrip(s) == IF s # <<>> /\ Head(s) = " " THEN LStrip(Tail(s)) ELSE s

RECURSIVE RStrip(_)
RStrip(s) ==
    IF s # <<>> /\ s[Len(s)] = " " THEN RStrip(SubSeq(s, 1, Len(s) - 1)) ELSE s

Strip(s) == RStrip(LStrip(s))

\* dict.get(key, ''): the value under key, the empty string when absent
Get(d, key) == IF key \in DOMAIN d THEN d[key] ELSE <<>>

\* str.format(**values): literal parts copied, placeholders substituted
RECURSIVE Format(_, _)
Format(template, values) ==
    IF template = <<>> THEN <<>>
    ELSE LET part == Head(template)
         IN  (IF part[1] = "lit" THEN <<part[2]>> ELSE values[part[2]])
             \o Format(Tail(template), values)

\* ", ".join(values)
RECURSIVE Join(_)
Join(values) ==
    IF values = <<>> THEN <<>>
    ELSE IF Len(values) = 1 THEN values[1]
    ELSE values[1] \o <<", ">> \o Join(Tail(values))

\* main.py:30-32  citation_text of build_context
CitationText(section_name, cits) ==
    IF DOMAIN cits # {} /\ section_name \in DOMAIN cits
    THEN Join(cits[section_name])
    ELSE <<>>

\* build_context without the early return of lines 49-50
build_context_NoEarlyReturn(section_name, previous_sections, cits) ==
    LET citation_text == CitationText(section_name, cits)
        base_context == IF section_name \in DOMAIN contexts
                        THEN contexts[section_name] ELSE <<>>
    IN  IF base_context = <<>> THEN citation_text
        ELSE Format(base_context,
                    [topic |-> Get(previous_sections, "topic"),
                     methodology |-> Get(previous_sections, "methodology"),
                     results |-> Get(previous_sections, "results"),
                     citations |-> citation_text])

\* main.py:27-57
build_context(section_name, previous_sections, cits) ==
    LET citation_text == CitationText(section_name, cits)
        base_context == IF section_name \in DOMAIN contexts
                        THEN contexts[section_name] ELSE <<>>
    IN  IF base_context = <<>> THEN <<>>
        ELSE Format(base_context,
                    [topic |-> Get(previous_sections, "topic"),
                     methodology |-> Get(previous_sections, "methodology"),
                     results |-> Get(previous_sections, "results"),
                     citations |-> citation_text])

\* index of the first ")" of text at or after position p, 0 when there is none
RECURSIVE NextClose(_, _)
NextClose(text, p) ==
    IF p > Len(text) THEN 0
    ELSE IF text[p] = ")" THEN p
    ELSE NextClose(text, p + 1)

\* the scan with the pattern \(([^)]*)\), which also matches "()"
RECURSIVE FindAll_AllowEmpty(_, _)
FindAll_AllowEmpty(text, p) ==
    IF p > Len(text) THEN <<>>
    ELSE IF text[p] = "("
         THEN LET q == NextClose(text, p + 1)
              IN  IF q >= p + 1
                  THEN <<SubSeq(text, p + 1, q - 1)>> \o FindAll_AllowEmpty(text, q + 1)
                  ELSE FindAll_AllowEmpty(text, p + 1)
         ELSE FindAll_AllowEmpty(text, p + 1)

\* main.py:314  re.findall(r'\(([^)]+)\)', text), scanning from position p:
\* a match starts at a "(", takes one or more characters other than ")" and
\* the ")" that follows them; the scan resumes after the match.
RECURSIVE FindAll(_, _)
FindAll(text, p) ==
    IF p > Len(text) THEN <<>>
    ELSE IF text[p] = "("
         THEN LET q == NextClose(text, p + 1)
              IN  IF q >= p + 2
                  THEN <<SubSeq(text, p + 1, q - 1)>> \o FindAll(text, q + 1)
                  ELSE FindAll(text, p + 1)
         ELSE FindAll(text, p + 1)

\* main.py:311-316  the citation map after extract_citations(text, section_name);
\* element j of the stored sequence is the value under key citation_<j-1>.
extract_citations(cits, text, section_name) ==
    LET found == FindAll(text, 1)
    IN  IF found # <<>>
        THEN [n \in DOMAIN cits \cup {section_name} |->
                 IF n = section_name THEN found ELSE cits[n]]
        ELSE cits

\* main.py:153-159  <<valid, message>>
RECURSIVE ValidateFrom(_, _)
ValidateFrom(values, k) ==
    IF k > Len(required_fields) THEN <<TRUE, <<>>>>
    ELSE IF Strip(values[required_fields[k]]) = <<>>
         THEN <<FALSE, <<Title(required_fields[k]), " is required">>>>
         ELSE ValidateFrom(values, k + 1)

validate_inputs(values) == ValidateFrom(values, 1)

\* main.py:270-280  the prompt of one section
Prompt(context, prompt_template, input_values) ==
    context \o Requirements \o Format(prompt_template, input_values)

\* dict[key] = value on an insertion-ordered dict
RECURSIVE DictSet(_, _, _)
DictSet(d, key, value) ==
    IF d = <<>> THEN << <<key, value>> >>
    ELSE IF Head(d)[1] = key THEN << <<key, value>> >> \o Tail(d)
    ELSE <<Head(d)>> \o DictSet(Tail(d), key, value)

Keys(d) == [j \in 1..Len(d) |-> d[j][1]]

\* ------------------------------------------------------------ environment
\* What the user can type into one entry widget.
InputVals == {<<>>, <<" ">>, <<"t">>}

\* What the generation service can return as response.text.
Responses == {<<"x">>, <<"(", "a", ")", "x", "(", "b", ")">>}

\* -------------------------------------------------------------------- state
VARIABLES
    inputs,                 \* self.inputs: field -> content of the entry widget
    inputs_enabled,         \* state of the entries and the button (toggle_inputs)
    save_as_markdown,       \* self.save_as_markdown
    closing,                \* self.closing
    citations,              \* self.citations
    section_texts,          \* self.section_texts
    status,                 \* text of self.status_labels[section]
    progress,               \* value of self.progress_bars[section]
    status_label,           \* self.status_label: text and is_error
    current_task,           \* self.current_task: None or the thread started
    threads,                \* the worker threads created so far, by thread id
    request_tick,           \* flips on every call of start_generation
    call                    \* a call of build_context or extract_citations made
                            \* on its own: the arguments and, once it has
                            \* returned, the result

app_vars == <<inputs, inputs_enabled, save_as_markdown, closing,
              citations, section_texts, status, progress, status_label, current_task,
              threads, request_tick>>

vars == <<inputs, inputs_enabled, save_as_markdown, closing,
          citations, section_texts, status, progress, status_label, current_task,
          threads, request_tick, call>>

EmptyMap == [n \in {} |-> <<>>]

\* A worker thread at the entry of generate_paper.  pc, i, input_values and
\* context are the coroutine's position and locals; the other fields record
\* what the run did: the generation calls issued, the texts they returned,
\* the step that raised, the
\* arguments save_document was invoked with, the files written, the value of
\* self.closing read at line 299 and the worker's position when self.closing
\* was set.
NewThread(closed) ==
    [pc |-> "validate", i |-> 0, input_values |-> EmptyMap, context |-> <<>>,
     calls |-> <<>>, returned |-> <<>>, failure |-> <<>>, save_calls |-> <<>>,
     files |-> <<>>,
     final_closing |-> "unread",
     closed_at |-> IF closed THEN <<"before", 0>> ELSE <<"no", 0>>]

\* What is kept of a worker thread of an earlier run once a new run starts:
\* that it is over, and the value of self.closing it read at line 299.
Finished(th) == [NewThread(FALSE) EXCEPT !.pc = "done", !.final_closing = th.final_closing]

\* no function is called on its own while the application runs
NoCall == [op |-> "none"]

\* main.py:60-71 and 140-151
AppInit ==
    /\ inputs = [f \in FieldNames |-> <<>>]
    /\ inputs_enabled = TRUE
    /\ save_as_markdown = FALSE
    /\ closing = FALSE
    /\ citations = EmptyMap
    /\ section_texts = <<>>
    /\ status = [n \in SectionNames |-> "Pending"]
    /\ progress = [n \in SectionNames |-> "0"]
    /\ status_label = [text |-> <<>>, is_error |-> FALSE]
    /\ current_task = None
    /\ threads = <<>>
    /\ request_tick = FALSE

Init == AppInit /\ call = NoCall

\* main.py:161-164
update_status_label(message, is_error) == [text |-> message, is_error |-> is_error]

\* main.py:166-170  the new status and progress maps
update_progress_status(section, st) ==
    IF section \in DOMAIN progress THEN [status EXCEPT ![section] = st] ELSE status

update_progress_value(section, pr) ==
    IF section \in DOMAIN progress THEN [progress EXCEPT ![section] = pr] ELSE progress

\* ---------------------------------------------------------------- UI thread
\* The owner of the application object sets self.closing; no code clears it.
SetClosing ==
    /\ ~closing
    /\ closing' = TRUE
    /\ threads' = [t \in DOMAIN threads |->
                     IF threads[t].pc # "done"
                     THEN [threads[t] EXCEPT !.closed_at = <<threads[t].pc, threads[t].i>>]
                     ELSE threads[t]]
    /\ UNCHANGED <<inputs, inputs_enabled, save_as_markdown,
                   citations, section_texts, status, progress, status_label,
                   current_task, request_tick>>

\* start_generation without the check of self.current_task
start_generation_NoGuard(typed) ==
    /\ request_tick' = ~request_tick
    /\ inputs' = IF inputs_enabled THEN typed ELSE inputs
    /\ Len(threads) < MaxRuns
    /\ inputs_enabled' = FALSE
    /\ status_label' = update_status_label(<<"Generating paper...">>, FALSE)
    /\ citations' = EmptyMap
    /\ section_texts' = <<>>
    /\ status' = [n \in DOMAIN status |->
                    IF n \in DOMAIN progress THEN "Pending" ELSE status[n]]
    /\ progress' = [n \in DOMAIN progress |-> "0"]
    /\ threads' = Append([t \in DOMAIN threads |->
                             IF threads[t].pc = "done" THEN Finished(threads[t]) ELSE threads[t]],
                         NewThread(closing))
    /\ current_task' = Len(threads) + 1
    /\ UNCHANGED <<save_as_markdown, closing>>

\* start_generation without the reset of lines 187-191
start_generation_NoReset(typed) ==
    /\ request_tick' = ~request_tick
    /\ IF current_task # None
       THEN UNCHANGED <<inputs, inputs_enabled, save_as_markdown,
                        closing, citations, section_texts, status, progress,
                        status_label, current_task, threads>>
       ELSE /\ Len(threads) < MaxRuns
            /\ inputs' = IF inputs_enabled THEN typed ELSE inputs
            /\ inputs_enabled' = FALSE
            /\ status_label' = update_status_label(<<"Generating paper...">>, FALSE)
            /\ threads' = Append([t \in DOMAIN threads |-> Finished(threads[t])], NewThread(closing))
            /\ current_task' = Len(threads) + 1
            /\ UNCHANGED <<save_as_markdown, closing, citations, section_texts,
                           status, progress>>

\* main.py:179-195  the user clicks the button.  typed is what the user has
\* typed into the entries before a click that starts a run; the entries can be
\* edited only while they are enabled.  Between two runs nothing reads the
\* entries, so their content is fixed at the click.
start_generation(typed) ==
    /\ request_tick' = ~request_tick
    /\ IF current_task # None
       THEN UNCHANGED <<inputs, inputs_enabled, save_as_markdown,
                        closing, citations, section_texts, status, progress,
                        status_label, current_task, threads>>
       ELSE /\ Len(threads) < MaxRuns
            /\ inputs' = IF inputs_enabled THEN typed ELSE inputs
            /\ inputs_enabled' = FALSE
            /\ status_label' = update_status_label(<<"Generating paper...">>, FALSE)
            /\ citations' = EmptyMap
            /\ section_texts' = <<>>
            /\ status' = [n \in DOMAIN status |->
                            IF n \in DOMAIN progress THEN "Pending" ELSE status[n]]
            /\ progress' = [n \in DOMAIN progress |-> "0"]
            /\ threads' = Append([t \in DOMAIN threads |-> Finished(threads[t])], NewThread(closing))
            /\ current_task' = Len(threads) + 1
            /\ UNCHANGED <<save_as_markdown, closing>>

\* ------------------------------------------------------------ worker thread
Live(t) == t \in DOMAIN threads /\ threads[t].pc # "done"

\* validation whose early return is outside the try ... finally
Validate_NoFinally(t) ==
    /\ Live(t) /\ threads[t].pc = "validate"
    /\ LET res == validate_inputs(inputs)
       IN  IF ~res[1]
           THEN /\ status_label' = update_status_label(res[2], TRUE)
                /\ threads' = [threads EXCEPT ![t].pc = "done",
                                              ![t].failure = <<"validate">>]
           ELSE /\ threads' = [threads EXCEPT
                      ![t].pc = "loop", ![t].i = 1,
                      ![t].input_values = [topic |-> inputs["topic"],
                                           methodology |-> inputs["methodology"],
                                           results |-> inputs["results"]]]
                /\ UNCHANGED status_label
    /\ UNCHANGED <<inputs, inputs_enabled, save_as_markdown,
                   closing, citations, section_texts, status, progress,
                   current_task, request_tick>>

\* main.py:226-257  validation and the snapshot of the inputs
Validate(t) ==
    /\ Live(t) /\ threads[t].pc = "validate"
    /\ LET res == validate_inputs(inputs)
       IN  IF ~res[1]
           THEN /\ status_label' = update_status_label(res[2], TRUE)
                /\ threads' = [threads EXCEPT ![t].pc = "finally",
                                              ![t].failure = <<"validate">>]
           ELSE /\ threads' = [threads EXCEPT
                      ![t].pc = "loop", ![t].i = 1,
                      ![t].input_values = [topic |-> inputs["topic"],
                                           methodology |-> inputs["methodology"],
                                           results |-> inputs["results"]]]
                /\ UNCHANGED status_label
    /\ UNCHANGED <<inputs, inputs_enabled, save_as_markdown,
                   closing, citations, section_texts, status, progress,
                   current_task, request_tick>>

\* the loop without the check of self.closing at line 260
LoopCheck_IgnoreClosing(t) ==
    /\ Live(t) /\ threads[t].pc = "loop"
    /\ IF threads[t].i > NumSections
       THEN /\ threads' = [threads EXCEPT ![t].pc = "final_check"]
            /\ UNCHANGED <<status, progress>>
       ELSE LET section_name == SectionName(threads[t].i)
                context == build_context(section_name, threads[t].input_values, citations)
                prompt == Prompt(context, sections[threads[t].i][2], threads[t].input_values)
            IN  /\ status' = update_progress_status(section_name, "Generating...")
                /\ progress' = update_progress_value(section_name, "0.5")
                /\ threads' = [threads EXCEPT
                       ![t].pc = "generating",
                       ![t].context = context,
                       ![t].calls = Append(@, <<section_name, prompt>>)]
    /\ UNCHANGED <<inputs, inputs_enabled, save_as_markdown,
                   closing, citations, section_texts, status_label,
                   current_task, request_tick>>

\* main.py:259-283  top of one loop iteration: the check of self.closing, the
\* status "Generating...", the context, the prompt and the generation request.
\* With the sections exhausted, or on break, control reaches line 299.
LoopCheck(t) ==
    /\ Live(t) /\ threads[t].pc = "loop"
    /\ IF threads[t].i > NumSections \/ closing
       THEN /\ threads' = [threads EXCEPT ![t].pc = "final_check"]
            /\ UNCHANGED <<status, progress>>
       ELSE LET section_name == SectionName(threads[t].i)
                context == build_context(section_name, threads[t].input_values, citations)
                prompt == Prompt(context, sections[threads[t].i][2], threads[t].input_values)
            IN  /\ status' = update_progress_status(section_name, "Generating...")
                /\ progress' = update_progress_value(section_name, "0.5")
                /\ threads' = [threads EXCEPT
                       ![t].pc = "generating",
                       ![t].context = context,
                       ![t].calls = Append(@, <<section_name, prompt>>)]
    /\ UNCHANGED <<inputs, inputs_enabled, save_as_markdown,
                   closing, citations, section_texts, status_label,
                   current_task, request_tick>>

\* a returned generation call whose text is dropped when self.closing is set
GenerateOk_DropIfClosing(t, section_text) ==
    /\ Live(t) /\ threads[t].pc = "generating"
    /\ LET section_name == SectionName(threads[t].i)
       IN  IF closing
           THEN /\ threads' = [threads EXCEPT ![t].pc = "final_check"]
                /\ UNCHANGED <<citations, section_texts, status, progress>>
           ELSE /\ citations' = extract_citations(citations, section_text, section_name)
                /\ section_texts' = DictSet(section_texts, section_name, section_text)
                /\ status' = update_progress_status(section_name, "Complete")
                /\ progress' = update_progress_value(section_name, "1.0")
                /\ threads' = [threads EXCEPT ![t].pc = "sleep",
                                              ![t].returned = Append(@, section_text)]
    /\ UNCHANGED <<inputs, inputs_enabled, save_as_markdown,
                   closing, status_label, current_task, request_tick>>

\* main.py:283-290  the generation call returns text
GenerateOk(t, section_text) ==
    /\ Live(t) /\ threads[t].pc = "generating"
    /\ LET section_name == SectionName(threads[t].i)
       IN  /\ citations' = extract_citations(citations, section_text, section_name)
           /\ section_texts' = DictSet(section_texts, section_name, section_text)
           /\ status' = update_progress_status(section_name, "Complete")
           /\ progress' = update_progress_value(section_name, "1.0")
    /\ threads' = [threads EXCEPT ![t].pc = "sleep",
                                  ![t].returned = Append(@, section_text)]
    /\ UNCHANGED <<inputs, inputs_enabled, save_as_markdown,
                   closing, status_label, current_task, request_tick>>

\* main.py:295-297 and 303-305  a step inside the try block of the loop body
\* raised: the section is marked Failed, the exception is wrapped with the
\* section's name and the outer handler reports it.
SectionFailed(t, step) ==
    LET section_name == SectionName(threads[t].i)
    IN  /\ status' = update_progress_status(section_name, "Failed")
        /\ progress' = update_progress_value(section_name, "0")
        /\ status_label' =
              update_status_label(<<"Error: ", "Error generating ", section_name, ": ", step>>, TRUE)
        /\ threads' = [threads EXCEPT ![t].pc = "finally",
                                      ![t].failure = <<step, section_name>>]
        /\ UNCHANGED <<inputs, inputs_enabled, save_as_markdown,
                       closing, citations, section_texts, current_task, request_tick>>

\* a failed generation call that marks the section Failed and goes on with the
\* next section instead of re-raising
GenerateFail_Continue(t) ==
    /\ Live(t) /\ threads[t].pc = "generating"
    /\ LET section_name == SectionName(threads[t].i)
       IN  /\ status' = update_progress_status(section_name, "Failed")
           /\ progress' = update_progress_value(section_name, "0")
           /\ threads' = [threads EXCEPT ![t].pc = "sleep",
                                         ![t].failure = <<"generate", section_name>>]
    /\ UNCHANGED <<inputs, inputs_enabled, save_as_markdown,
                   closing, citations, section_texts, status_label, current_task,
                   request_tick>>

\* a failed generation call after which the same section is tried again
GenerateFail_Retry(t) ==
    /\ Live(t) /\ threads[t].pc = "generating"
    /\ threads' = [threads EXCEPT ![t].pc = "loop",
                                  ![t].failure = <<"generate", SectionName(threads[t].i)>>]
    /\ UNCHANGED <<inputs, inputs_enabled, save_as_markdown, closing, citations,
                   section_texts, status, progress, status_label, current_task,
                   request_tick>>

\* main.py:283-284  model.generate_content or response.text raises
GenerateFail(t) ==
    /\ Live(t) /\ threads[t].pc = "generating"
    /\ SectionFailed(t, "generate")

\* main.py:293  the pause between sections is over
SleepOk(t) ==
    /\ Live(t) /\ threads[t].pc = "sleep"
    /\ threads' = [threads EXCEPT ![t].pc = "loop", ![t].i = @ + 1]
    /\ UNCHANGED <<inputs, inputs_enabled, save_as_markdown,
                   closing, citations, section_texts, status, progress, status_label,
                   current_task, request_tick>>

\* main.py:293  the await raises; it is inside the try block of the loop body
SleepFail(t) ==
    /\ Live(t) /\ threads[t].pc = "sleep"
    /\ SectionFailed(t, "sleep")

\* line 299 without the check of self.closing
FinalCheck_IgnoreClosing(t) ==
    /\ Live(t) /\ threads[t].pc = "final_check"
    /\ threads' = [threads EXCEPT ![t].pc = "saving",
                                  ![t].final_closing = IF closing THEN "set" ELSE "clear",
                                  ![t].save_calls = Append(@, section_texts)]
    /\ UNCHANGED <<inputs, inputs_enabled, save_as_markdown,
                   closing, citations, section_texts, status, progress, status_label,
                   current_task, request_tick>>

\* main.py:299-300  the check of self.closing after the loop, and the call of
\* save_document
FinalCheck(t) ==
    /\ Live(t) /\ threads[t].pc = "final_check"
    /\ IF ~closing
       THEN threads' = [threads EXCEPT ![t].pc = "saving",
                                       ![t].final_closing = IF closing THEN "set" ELSE "clear",
                                       ![t].save_calls = Append(@, section_texts)]
       ELSE threads' = [threads EXCEPT ![t].pc = "finally",
                                       ![t].final_closing = IF closing THEN "set" ELSE "clear"]
    /\ UNCHANGED <<inputs, inputs_enabled, save_as_markdown,
                   closing, citations, section_texts, status, progress, status_label,
                   current_task, request_tick>>

\* main.py:318-322
RECURSIVE MarkdownSections(_)
MarkdownSections(texts) ==
    IF texts = <<>> THEN <<>>
    ELSE << <<"## ", Head(texts)[1], "\n\n">> \o Strip(Head(texts)[2]) \o <<"\n">> >>
         \o MarkdownSections(Tail(texts))

RECURSIVE JoinWith(_, _)
JoinWith(sep, parts) ==
    IF parts = <<>> THEN <<>>
    ELSE IF Len(parts) = 1 THEN parts[1]
    ELSE parts[1] \o sep \o JoinWith(sep, Tail(parts))

format_to_markdown(texts) == JoinWith(<<"\n---\n">>, MarkdownSections(texts))

\* save_document whose failures are reported without is_error
SaveDocument_NotAnError(t, doc_ok, md_ok, md_requested) ==
    /\ Live(t) /\ threads[t].pc = "saving"
    /\ LET arg == threads[t].save_calls[Len(threads[t].save_calls)]
           flag == IF doc_ok /\ md_requested THEN TRUE ELSE save_as_markdown
           docx == << <<"docx", arg>> >>
           md == << <<"md", format_to_markdown(arg)>> >>
       IN  /\ save_as_markdown' = flag
           /\ IF ~doc_ok
              THEN /\ status_label' = update_status_label(<<"Error: ", "doc.save">>, FALSE)
                   /\ threads' = [threads EXCEPT ![t].pc = "finally",
                                                 ![t].failure = <<"save", "docx">>]
              ELSE IF md_requested /\ ~md_ok
              THEN /\ status_label' = update_status_label(<<"Error: ", "md_file.write">>, FALSE)
                   /\ threads' = [threads EXCEPT ![t].pc = "finally",
                                                 ![t].files = docx,
                                                 ![t].failure = <<"save", "md">>]
              ELSE IF flag /\ ~md_requested
              THEN /\ status_label' = update_status_label(<<"Error: ", "UnboundLocalError filename_md">>, FALSE)
                   /\ threads' = [threads EXCEPT ![t].pc = "finally",
                                                 ![t].files = docx,
                                                 ![t].failure = <<"save", "status">>]
              ELSE /\ status_label' =
                        update_status_label(<<"Research paper generated successfully!">>, FALSE)
                   /\ threads' = [threads EXCEPT
                          ![t].pc = "finally",
                          ![t].files = IF md_requested THEN docx \o md ELSE docx]
    /\ UNCHANGED <<inputs, inputs_enabled, closing,
                   citations, section_texts, status, progress,
                   current_task, request_tick>>

\* main.py:201-222 and 301-305  save_document and what follows it.  doc_ok and
\* md_ok say whether the two file writes succeed; md_requested is the state of
\* the "Save as Markdown" checkbox when line 215 reads it (the checkbox is not
\* among self.inputs, so the user can flip it at any time).  filename_md is bound only
\* when the checkbox is set; line 222 reads it whenever self.save_as_markdown
\* is set, and reading it unbound raises UnboundLocalError.
SaveDocument(t, doc_ok, md_ok, md_requested) ==
    /\ Live(t) /\ threads[t].pc = "saving"
    /\ LET arg == threads[t].save_calls[Len(threads[t].save_calls)]
           flag == IF doc_ok /\ md_requested THEN TRUE ELSE save_as_markdown
           docx == << <<"docx", arg>> >>
           md == << <<"md", format_to_markdown(arg)>> >>
       IN  /\ save_as_markdown' = flag
           /\ IF ~doc_ok
              THEN /\ status_label' = update_status_label(<<"Error: ", "doc.save">>, TRUE)
                   /\ threads' = [threads EXCEPT ![t].pc = "finally",
                                                 ![t].failure = <<"save", "docx">>]
              ELSE IF md_requested /\ ~md_ok
              THEN /\ status_label' = update_status_label(<<"Error: ", "md_file.write">>, TRUE)
                   /\ threads' = [threads EXCEPT ![t].pc = "finally",
                                                 ![t].files = docx,
                                                 ![t].failure = <<"save", "md">>]
              ELSE IF flag /\ ~md_requested
              THEN /\ status_label' = update_status_label(<<"Error: ", "UnboundLocalError filename_md">>, TRUE)
                   /\ threads' = [threads EXCEPT ![t].pc = "finally",
                                                 ![t].files = docx,
                                                 ![t].failure = <<"save", "status">>]
              ELSE /\ status_label' =
                        update_status_label(<<"Research paper generated successfully!">>, FALSE)
                   /\ threads' = [threads EXCEPT
                          ![t].pc = "finally",
                          ![t].files = IF md_requested THEN docx \o md ELSE docx]
    /\ UNCHANGED <<inputs, inputs_enabled, closing,
                   citations, section_texts, status, progress,
                   current_task, request_tick>>

\* main.py:308  finally: toggle_inputs(True)
Finally(t) ==
    /\ Live(t) /\ threads[t].pc = "finally"
    /\ inputs_enabled' = TRUE
    /\ threads' = [threads EXCEPT ![t].pc = "clear"]
    /\ UNCHANGED <<inputs, save_as_markdown, closing,
                   citations, section_texts, status, progress, status_label,
                   current_task, request_tick>>

\* main.py:309  finally: self.current_task = None; generate_paper returns
ClearTask(t) ==
    /\ Live(t) /\ threads[t].pc = "clear"
    /\ current_task' = None
    /\ threads' = [threads EXCEPT ![t].pc = "done"]
    /\ UNCHANGED <<inputs, inputs_enabled, save_as_markdown,
                   closing, citations, section_texts, status, progress, status_label,
                   request_tick>>

\* ------------------------------------------------------------- specification
\* main.py:94-113  what the entries can hold when the user has finished typing:
\* nothing was typed at all, or every field is filled except for at most one,
\* which is left empty or holds only whitespace.
Entries ==
    {[f \in FieldNames |-> <<>>]} \cup
    {[[f \in FieldNames |-> <<"t">>] EXCEPT ![g] = v] : g \in FieldNames, v \in InputVals}

\* What the entries can hold at a click: any of these before a click that starts
\* a run, their present content otherwise.
Typed == IF current_task = None THEN Entries ELSE {inputs}

Next ==
    \/ SetClosing /\ UNCHANGED call
    \/ \E typed \in Typed : start_generation(typed) /\ UNCHANGED call
    \/ \E t \in 1..MaxRuns : Validate(t) /\ UNCHANGED call
    \/ \E t \in 1..MaxRuns : LoopCheck(t) /\ UNCHANGED call
    \/ \E t \in 1..MaxRuns, text \in Responses : GenerateOk(t, text) /\ UNCHANGED call
    \/ \E t \in 1..MaxRuns : GenerateFail(t) /\ UNCHANGED call
    \/ \E t \in 1..MaxRuns : SleepOk(t) /\ UNCHANGED call
    \/ \E t \in 1..MaxRuns : SleepFail(t) /\ UNCHANGED call
    \/ \E t \in 1..MaxRuns : FinalCheck(t) /\ UNCHANGED call
    \/ \E t \in 1..MaxRuns, doc_ok \in BOOLEAN, md_ok \in BOOLEAN, md_requested \in BOOLEAN :
          SaveDocument(t, doc_ok, md_ok, md_requested) /\ UNCHANGED call
    \/ \E t \in 1..MaxRuns : Finally(t) /\ UNCHANGED call
    \/ \E t \in 1..MaxRuns : ClearTask(t) /\ UNCHANGED call

Spec == Init /\ [][Next]_vars

\* main.py:194-199  a step of a started worker thread.  The thread is scheduled
\* by the operating system, and the generation call, the pause and the file
\* writes are taken to return or raise.
WorkerStep ==
    \E t \in 1..MaxRuns :
        /\ \/ Validate(t)
           \/ LoopCheck(t)
           \/ \E text \in Responses : GenerateOk(t, text)
           \/ GenerateFail(t)
           \/ SleepOk(t)
           \/ SleepFail(t)
           \/ FinalCheck(t)
           \/ \E doc_ok \in BOOLEAN, md_ok \in BOOLEAN, md_requested \in BOOLEAN :
                 SaveDocument(t, doc_ok, md_ok, md_requested)
           \/ Finally(t)
           \/ ClearTask(t)
        /\ UNCHANGED call

FairSpec == Spec /\ WF_vars(WorkerStep)

TypeOK ==
    /\ inputs \in Entries
    /\ inputs_enabled \in BOOLEAN
    /\ closing \in BOOLEAN
    /\ current_task \in 0..MaxRuns
    /\ DOMAIN citations \subseteq SectionNames
    /\ \A n \in SectionNames : status[n] \in {"Pending", "Generating...", "Complete", "Failed"}
    /\ \A n \in SectionNames : progress[n] \in {"0", "0.5", "1.0"}
    /\ Len(threads) <= MaxRuns

\* ------------------------------------------- extract_citations on its own
\* The characters of the texts handed to extract_citations.
Alphabet == {"(", ")", "a"}

Texts == UNION {[1..n -> Alphabet] : n \in 0..MaxLen}

\* The citation maps handed to extract_citations: empty, or holding the
\* citations of another section.
ExtractMaps == {EmptyMap, [n \in {"Introduction"} |-> << <<"z">> >>]}

ExtractInit ==
    /\ AppInit
    /\ call \in {[op |-> "extract", text |-> tx, section_name |-> n, cits |-> c,
                   done |-> FALSE, ret |-> EmptyMap] :
                      tx \in Texts, n \in {"Abstract", "Results"}, c \in ExtractMaps}

\* main.py:287  self.extract_citations(section_text, section_name)
CallExtract ==
    /\ call.op = "extract" /\ ~call.done
    /\ call' = [call EXCEPT !.done = TRUE,
                            !.ret = extract_citations(call.cits, call.text, call.section_name)]
    /\ UNCHANGED app_vars

ExtractNext == CallExtract

ExtractSpec == ExtractInit /\ [][ExtractNext]_vars

\* ----------------------------------------------- build_context on its own
\* The section names handed to build_context: the declared ones and two that
\* have no template.
ContextNames == SectionNames \cup {"References", ""}

\* The previous_sections handed to build_context: a dict without keys, or one
\* with the three keys of input_values.
ContextInputs ==
    {EmptyMap} \cup [{"topic", "methodology", "results"} -> {<<>>, <<"t">>}]

\* The citation maps handed to build_context: None or an empty dict, and maps
\* with an entry for one section.
ContextMaps ==
    {EmptyMap} \cup
    {[n \in {name} |-> c] : name \in {"Abstract", "Introduction", "References"},
                            c \in {<< <<"a">> >>, << <<"a">>, <<"b">> >>}}

ContextInit ==
    /\ AppInit
    /\ call \in {[op |-> "context", section_name |-> n, previous_sections |-> ps,
                   cits |-> c, done |-> FALSE, ret |-> <<>>] :
                      n \in ContextNames, ps \in ContextInputs, c \in ContextMaps}

\* main.py:267  build_context(section_name, input_values, self.citations)
CallContext ==
    /\ call.op = "context" /\ ~call.done
    /\ call' = [call EXCEPT !.done = TRUE,
                            !.ret = build_context(call.section_name, call.previous_sections,
                                                  call.cits)]
    /\ UNCHANGED app_vars

ContextNext == CallContext

ContextSpec == ContextInit /\ [][ContextNext]_vars

\* ------------------------------------------------------------------- claims
\* The declared order of the sections, as the specification lists it.
DeclaredOrder ==
    <<"Abstract", "Introduction", "Methodology", "Results", "Discussion", "Conclusion">>

Ended(t) == threads[t].pc \in {"finally", "clear", "done"}

Successful == [text |-> <<"Research paper generated successfully!">>, is_error |-> FALSE]

\* C1: if the generation call fails on the k-th section of a run, then from
\* that point to the end of the run sections 1..k-1 are Complete, section k is
\* Failed with progress 0, sections k+1..6 are Pending, save_document has not
\* been invoked and the overall status is an error naming section k.
C1_GenerationFailure ==
    \A t \in DOMAIN threads : \A k \in 1..6 :
        threads[t].failure = <<"generate", DeclaredOrder[k]>> =>
            /\ Ended(t)
            /\ Len(threads[t].calls) = k
            /\ \A j \in 1..(k - 1) : status[DeclaredOrder[j]] = "Complete"
            /\ status[DeclaredOrder[k]] = "Failed"
            /\ progress[DeclaredOrder[k]] = "0"
            /\ \A j \in (k + 1)..6 : status[DeclaredOrder[j]] = "Pending"
            /\ threads[t].save_calls = <<>>
            /\ threads[t].files = <<>>
            /\ status_label.is_error
            /\ status_label.text =
                  <<"Error: ", "Error generating ", DeclaredOrder[k], ": ", "generate">>

\* a run is over whose third generation call failed
C1_Witness ==
    \E t \in DOMAIN threads :
        /\ threads[t].pc = "done"
        /\ threads[t].failure = <<"generate", "Methodology">>

\* C2: if self.closing is set between the end of section k-1 and the start of
\* section k, then from that point to the end of the run sections 1..k-1 are
\* Complete, sections k..6 are Pending, no generation call is issued for
\* sections k..6, save_document is not invoked and no error is reported.
C2_CancelBetweenSections ==
    \A t \in DOMAIN threads : \A k \in 1..6 :
        threads[t].closed_at = <<"loop", k>> =>
            /\ threads[t].pc \in {"loop", "final_check", "finally", "clear", "done"}
            /\ \A j \in 1..(k - 1) : status[DeclaredOrder[j]] = "Complete"
            /\ \A j \in k..6 : status[DeclaredOrder[j]] = "Pending"
            /\ \A j \in 1..6 : status[DeclaredOrder[j]] # "Failed"
            /\ Len(threads[t].calls) = k - 1
            /\ \A j \in 1..(k - 1) : threads[t].calls[j][1] = DeclaredOrder[j]
            /\ threads[t].save_calls = <<>>
            /\ threads[t].files = <<>>
            /\ threads[t].failure = <<>>
            /\ ~status_label.is_error

\* a run is over that was cancelled between its second and its third section
C2_Witness ==
    \E t \in DOMAIN threads :
        /\ threads[t].pc = "done"
        /\ threads[t].closed_at = <<"loop", 3>>

\* C3: at most one worker executes generate_paper at any time, and a call of
\* start_generation made while self.current_task is set changes neither the
\* citation map, the section texts, the statuses, the progress values, the
\* overall status, the handle nor the set of workers.
C3_SingleFlight ==
    /\ [](Cardinality({t \in DOMAIN threads : threads[t].pc # "done"}) <= 1)
    /\ [][(request_tick' # request_tick /\ current_task # None) =>
            UNCHANGED <<citations, section_texts, status, progress, status_label,
                        current_task, threads, inputs_enabled>>]_vars

\* start_generation was called a second time while the first run was in its
\* third generation call, and the run went on
C3_Witness ==
    /\ Len(threads) = 1
    /\ threads[1].pc = "generating"
    /\ threads[1].i = 3
    /\ current_task = 1
    /\ request_tick = FALSE

\* what build_context returns for a section when no citation text reaches it
ContextWithoutCitations(t) ==
    build_context(SectionName(threads[t].i), threads[t].input_values, EmptyMap)

\* C4: whenever the context of a section other than the first is built while
\* an earlier section of the run has recorded at least one citation, the
\* citation part of that context is not empty.
C4_ContextCarriesCitations ==
    \A t \in DOMAIN threads :
        (/\ threads[t].pc = "generating"
         /\ threads[t].i > 1
         /\ \E j \in 1..(threads[t].i - 1) : DeclaredOrder[j] \in DOMAIN citations)
        => threads[t].context # ContextWithoutCitations(t)

\* C5: a run whose six generation calls succeeded, that was not cancelled and
\* whose file writes succeeded has invoked save_document with all six section
\* texts and ends with the success message as overall status.
C5_SuccessReported ==
    \A t \in DOMAIN threads :
        (/\ Ended(t)
         /\ Len(threads[t].calls) = 6
         /\ threads[t].final_closing = "clear"
         /\ threads[t].failure \notin {<<"save", "docx">>, <<"save", "md">>})
        => /\ Len(threads[t].save_calls) = 1
           /\ Keys(threads[t].save_calls[1]) = DeclaredOrder
           /\ status_label = Successful

\* C6: a call of start_generation with a blank required input, made while no
\* run is active, leaves the handle null and modifies neither the citation
\* map, the section texts nor the statuses left by the previous run.
C6_BlankInputNeverStarts ==
    [][(/\ request_tick' # request_tick
        /\ current_task = None
        /\ ~validate_inputs(inputs')[1])
       => (/\ current_task' = None
           /\ UNCHANGED <<citations, section_texts, status, progress>>)]_vars

\* C7: the generation calls of a run are issued in the declared order, the
\* call for a section is issued only when every earlier section has its
\* citations merged, its text stored and status Complete, and the keys of
\* section_texts are in the declared order, all six of them once
\* save_document is invoked.
C7_DeclaredOrder ==
    \A t \in DOMAIN threads :
        /\ Len(threads[t].calls) <= 6
        /\ \A j \in 1..Len(threads[t].calls) : threads[t].calls[j][1] = DeclaredOrder[j]
        /\ Live(t) =>
              /\ Len(section_texts) <= 6
              /\ \A j \in 1..Len(section_texts) : section_texts[j][1] = DeclaredOrder[j]
        /\ threads[t].pc = "generating" =>
              /\ Len(threads[t].calls) = threads[t].i
              /\ Len(section_texts) = threads[t].i - 1
              /\ \A j \in 1..(threads[t].i - 1) :
                    /\ status[DeclaredOrder[j]] = "Complete"
                    /\ progress[DeclaredOrder[j]] = "1.0"
                    /\ IF FindAll(section_texts[j][2], 1) # <<>>
                       THEN /\ DeclaredOrder[j] \in DOMAIN citations
                            /\ citations[DeclaredOrder[j]] = FindAll(section_texts[j][2], 1)
                       ELSE DeclaredOrder[j] \notin DOMAIN citations
        /\ threads[t].save_calls # <<>> =>
              /\ Keys(section_texts) = DeclaredOrder
              /\ Keys(threads[t].save_calls[1]) = DeclaredOrder

\* the sixth generation call of a run is in flight
C7_Witness ==
    \E t \in DOMAIN threads :
        /\ threads[t].pc = "generating"
        /\ threads[t].i = 6
        /\ "Methodology" \in DOMAIN citations

\* C8: whenever save_document has been invoked in a run, section_texts holds a
\* text for each of the six sections, all six statuses are Complete, no
\* section has failed or been skipped, and self.closing was clear at the check
\* that preceded the call.
C8_SaveOnlyComplete ==
    \A t \in DOMAIN threads :
        threads[t].save_calls # <<>> =>
            /\ Len(threads[t].save_calls) = 1
            /\ threads[t].save_calls[1] = section_texts
            /\ Len(section_texts) = 6
            /\ \A j \in 1..6 : \E m \in 1..6 : section_texts[m][1] = DeclaredOrder[j]
            /\ \A j \in 1..6 : status[DeclaredOrder[j]] = "Complete"
            /\ Len(threads[t].calls) = 6
            /\ threads[t].final_closing = "clear"
            /\ (threads[t].failure = <<>> \/ threads[t].failure[1] = "save")

\* save_document is running
C8_Witness ==
    \E t \in DOMAIN threads :
        /\ threads[t].pc = "saving"
        /\ threads[t].save_calls # <<>>

\* C9: within one run a section's status only moves Pending -> Generating ->
\* Complete or Pending -> Generating -> Failed; a section that is Complete or
\* Failed keeps that status until the next run starts.
C9_StatusTransitions ==
    [][Len(threads') = Len(threads) =>
         \A n \in SectionNames :
            \/ status'[n] = status[n]
            \/ status[n] = "Pending" /\ status'[n] = "Generating..."
            \/ status[n] = "Generating..." /\ status'[n] \in {"Complete", "Failed"}]_vars

\* C10: a run started after an earlier run was cancelled begins with
\* self.closing clear.
C10_FlagRunScoped ==
    \A t \in DOMAIN threads :
        (t > 1 /\ threads[t - 1].final_closing = "set")
        => threads[t].closed_at # <<"before", 0>>

\* the candidates stored for the section of an extract_citations call
Stored == IF call.section_name \in DOMAIN call.ret THEN call.ret[call.section_name] ELSE <<>>

\* One pass over the text from position p; open is the position of the "(" that
\* started the span being read, 0 outside a span.  A ")" ends the span and
\* yields its inner content; with empty_too the content may be empty.
RECURSIVE Scan(_, _, _, _)
Scan(text, p, open, empty_too) ==
    IF p > Len(text) THEN <<>>
    ELSE IF open = 0
         THEN Scan(text, p + 1, IF text[p] = "(" THEN p ELSE 0, empty_too)
         ELSE IF text[p] = ")"
              THEN (IF p > open + 1 \/ empty_too
                    THEN <<SubSeq(text, open + 1, p - 1)>> ELSE <<>>)
                   \o Scan(text, p + 1, 0, empty_too)
              ELSE Scan(text, p + 1, open, empty_too)

\* C11 as stated: the extractor yields, in discovery order, one candidate for
\* every span from a "(" to the next ")", spans with empty content included,
\* and keeps equal candidates as separate entries.
C11_EverySpan ==
    (call.op = "extract" /\ call.done) => Stored = Scan(call.text, 1, 0, TRUE)

\* C11 as amended: the extractor yields, in discovery order, one candidate for
\* every span from a "(" to the next ")" that has at least one character
\* between them, keeps equal candidates as separate entries, stores no key for
\* a text without candidates and leaves the other sections' entries alone.
C11_NonEmptySpans ==
    (call.op = "extract" /\ call.done) =>
        /\ Stored = Scan(call.text, 1, 0, FALSE)
        /\ \A j \in 1..Len(Stored) : Stored[j] # <<>>
        /\ DOMAIN call.ret =
              DOMAIN call.cits \cup (IF Stored # <<>> THEN {call.section_name} ELSE {})
        /\ \A n \in DOMAIN call.cits : call.ret[n] = call.cits[n]

\* the extractor has returned two equal candidates for "(a)(a)"
C11_Witness ==
    /\ call.op = "extract" /\ call.done
    /\ call.text = <<"(", "a", ")", "(", "a", ")">>
    /\ Stored = << <<"a">>, <<"a">> >>

\* C12: if all six sections complete and save_document then fails, the run
\* ends with an error as overall status, all six sections stay Complete,
\* section_texts keeps the six texts until the next run starts, and no
\* generation call is issued again.
C12_SaveFailure ==
    \A t \in DOMAIN threads :
        (threads[t].failure # <<>> /\ threads[t].failure[1] = "save") =>
            /\ Ended(t)
            /\ status_label.is_error
            /\ status_label.text[1] = "Error: "
            /\ \A j \in 1..6 : status[DeclaredOrder[j]] = "Complete"
            /\ \A j \in 1..6 : progress[DeclaredOrder[j]] = "1.0"
            /\ Keys(section_texts) = DeclaredOrder
            /\ threads[t].save_calls = <<section_texts>>
            /\ Keys(threads[t].calls) = DeclaredOrder

\* a run is over whose doc.save failed
C12_Witness ==
    \E t \in DOMAIN threads :
        /\ threads[t].pc = "done"
        /\ threads[t].failure = <<"save", "docx">>

\* C13: within one run the generation call is issued at most once per
\* section, and once a generation call of the run has failed the run issues
\* no further call; calls are issued again only by the worker of a new start
\* request.
C13_NoRetry ==
    /\ [](\A t \in DOMAIN threads :
            \A j, m \in 1..Len(threads[t].calls) :
                threads[t].calls[j][1] = threads[t].calls[m][1] => j = m)
    /\ [][\A t \in DOMAIN threads :
            (Len(threads') = Len(threads) /\ threads[t].failure # <<>>)
            => threads'[t].calls = threads[t].calls]_vars

\* a run is over whose fourth generation call failed, after four calls
C13_Witness ==
    \E t \in DOMAIN threads :
        /\ threads[t].pc = "done"
        /\ threads[t].failure = <<"generate", "Results">>
        /\ Len(threads[t].calls) = 4

\* the section names the specification gives a context template
TemplateNames == {"Introduction", "Methodology", "Results", "Discussion", "Conclusion"}

\* C14: build_context returns the empty string for the first section and for
\* every section name without a template, whatever the inputs and the
\* citation map hold (an entry under the queried name included), and a
\* non-empty context for the other sections; the call leaves its arguments as
\* they were.
C14_EmptyContext ==
    /\ [](call.op = "context" /\ call.done =>
            IF call.section_name \in TemplateNames
            THEN call.ret # <<>>
            ELSE call.ret = <<>>)
    /\ [][call.op = "context" =>
            /\ call'.section_name = call.section_name
            /\ call'.previous_sections = call.previous_sections
            /\ call'.cits = call.cits]_vars

\* build_context has returned for the Abstract with a citation map that has an
\* entry under "Abstract"
C14_Witness ==
    /\ call.op = "context" /\ call.done
    /\ call.section_name = "Abstract"
    /\ "Abstract" \in DOMAIN call.cits
    /\ call.ret = <<>>

\* C15: every accepted start request leads to a state where the handle is
\* null again and the inputs are enabled, whatever the outcome of the run; a
\* start request made with the handle null is accepted.
C15_RunEnds ==
    /\ (current_task # None) ~> (current_task = None /\ inputs_enabled)
    /\ [][(request_tick' # request_tick /\ current_task = None) =>
            /\ current_task' = Len(threads) + 1
            /\ Len(threads') = Len(threads) + 1
            /\ threads'[Len(threads')].pc = "validate"]_vars

\* a second run was accepted after the first one ended, and has ended too
C15_Witness ==
    /\ Len(threads) = 2
    /\ threads[2].pc = "done"
    /\ threads[2].failure = <<"validate">>
    /\ current_task = None
    /\ inputs_enabled

\* C16: if self.closing is set while the generation call of section k is in
\* flight and the call succeeds, the step that handles the returned text
\* merges the citations, stores the text and sets section k to Complete; the
\* flag takes effect at the next check only: no further call is issued,
\* sections k+1..6 stay Pending and save_document is not invoked, also when k
\* is the last section.
C16_NoPreemption ==
    /\ [](\A t \in DOMAIN threads : \A k \in 1..6 :
            (/\ threads[t].closed_at = <<"generating", k>>
             /\ threads[t].pc # "generating"
             /\ threads[t].failure # <<"generate", DeclaredOrder[k]>>)
            => /\ Len(section_texts) = k
               /\ section_texts[k][1] = DeclaredOrder[k]
               /\ IF FindAll(section_texts[k][2], 1) # <<>>
                  THEN /\ DeclaredOrder[k] \in DOMAIN citations
                       /\ citations[DeclaredOrder[k]] = FindAll(section_texts[k][2], 1)
                  ELSE DeclaredOrder[k] \notin DOMAIN citations
               /\ threads[t].failure = <<>> => status[DeclaredOrder[k]] = "Complete"
               /\ \A j \in (k + 1)..6 : status[DeclaredOrder[j]] = "Pending"
               /\ Len(threads[t].calls) = k
               /\ threads[t].save_calls = <<>>
               /\ threads[t].files = <<>>)
    /\ [][\A t \in DOMAIN threads : \A k \in 1..6 :
            (/\ threads[t].closed_at = <<"generating", k>>
             /\ threads[t].pc = "generating"
             /\ t \in DOMAIN threads'
             /\ threads'[t].pc # "generating"
             /\ threads'[t].failure = <<>>)
            => /\ status'[DeclaredOrder[k]] = "Complete"
               /\ progress'[DeclaredOrder[k]] = "1.0"
               /\ Len(section_texts') = k
               /\ threads'[t].pc = "sleep"]_vars

\* a run is over in which self.closing was set during the generation call of
\* the last section, which then succeeded
C16_Witness ==
    \E t \in DOMAIN threads :
        /\ threads[t].pc = "done"
        /\ threads[t].closed_at = <<"generating", 6>>
        /\ threads[t].failure = <<>>
        /\ Len(section_texts) = 6

\* C17: in every state in which no section is Generating, the sections that
\* have a stored text are the sections with status Complete and form a prefix
\* of the declared order, the citation map has keys only for those sections,
\* and no mapping it holds is empty.
C17_TextsMatchComplete ==
    (\A n \in SectionNames : status[n] # "Generating...") =>
        LET stored == {section_texts[j][1] : j \in 1..Len(section_texts)}
            complete == {n \in SectionNames : status[n] = "Complete"}
        IN  /\ stored = complete
            /\ \E k \in 0..6 : stored = {DeclaredOrder[j] : j \in 1..k}
            /\ DOMAIN citations \subseteq stored
            /\ \A n \in DOMAIN citations : citations[n] # <<>>

\* the citation map that the first k returned texts of a run produce
RECURSIVE CitationsOf(_, _)
CitationsOf(returned, k) ==
    IF k = 0 THEN EmptyMap
    ELSE extract_citations(CitationsOf(returned, k - 1), returned[k], DeclaredOrder[k])

\* C18: when the worker of an accepted start request begins, the citation
\* map and the section texts are empty and all six sections are Pending with
\* progress 0; throughout the run the section texts, the citation map, the
\* context of every call and the document handed to save_document are made of
\* the texts returned in this run only.
C18_RunStateReset ==
    \A t \in DOMAIN threads :
        t = Len(threads) =>
            LET r == threads[t].returned
            IN  /\ threads[t].pc = "validate" =>
                      /\ citations = EmptyMap
                      /\ section_texts = <<>>
                      /\ \A n \in SectionNames : status[n] = "Pending" /\ progress[n] = "0"
                /\ section_texts = [j \in 1..Len(r) |-> <<DeclaredOrder[j], r[j]>>]
                /\ citations = CitationsOf(r, Len(r))
                /\ \A j \in 1..Len(threads[t].save_calls) :
                      threads[t].save_calls[j] = section_texts
                /\ threads[t].pc = "generating" =>
                      threads[t].context =
                         build_context(DeclaredOrder[threads[t].i], threads[t].input_values,
                                       CitationsOf(r, Len(r)))

\* the second call of a second run is in flight, after a first run that
\* generated all six sections
C18_Witness ==
    /\ Len(threads) = 2
    /\ threads[1].final_closing = "clear"
    /\ threads[2].pc = "generating"
    /\ threads[2].i = 2

====
